---- MODULE Spec2Model ----
(***************************************************************************)
(* Client pages of the auditorium control system.                          *)
(*   dashboard  src/unnamed/part_000  (state, mode commands, OFF guard,    *)
(*                                     notifications, log viewer)          *)
(*   admin      src/static/js/admin.js (users, log cleanup)                *)
(* Each handler is one action up to its first await; the continuation     *)
(* after the awaited fetch is the matching Respuesta* action, taken when   *)
(* the browser delivers the response. Responses arrive in any order.       *)
(***************************************************************************)
EXTENDS Integers, Sequences, FiniteSets, Bags, TLC

(* ------------------------------ bounds --------------------------------- *)
\* mode-change requests in flight at once
MaxEnVuelo == 2
\* GET /api/historial requests in flight at once
MaxLogsEnVuelo == 2
\* admin requests in flight at once
MaxAdminEnVuelo == 3
\* admin requests in flight when a tab is switched to
MaxPanelEnVuelo == 2
\* notices created while the page lives
MaxAvisos == 3

(* --------------------------- dashboard data ---------------------------- *)
NULL == "null"
Indefinido == "undefined"

\* the controls of the page that are passed as `btn`
BotonesComando == {"btn-conferencia", "btn-cine"}
BotonesApagar == {"btn-apagar"}
Botones == BotonesComando \cup BotonesApagar

\* the values documented for the parameter `modo` of enviarComando
ModosComando == {"CONFERENCIA", "CINE", "OFF"}

\* states the server can report
Estados ==
    { [modo_actual |-> "CINE",    carga_cpu |-> 88, latencia |-> 24],
      [modo_actual |-> "STANDBY", carga_cpu |-> 5,  latencia |-> 8],
      [modo_actual |-> "OFF",     carga_cpu |-> 0,  latencia |-> 0] }

EstadoNulo == [modo_actual |-> "", carga_cpu |-> 0, latencia |-> 0]

\* HTTP statuses the server answers with
Http == {200, 429, 500}

MsgServidor == "msg-servidor"

\* response.ok
Ok(http) == http >= 200 /\ http <= 299

(* A settled fetch: tipo "red" is a rejected fetch (network failure),      *)
(* "nojson" a response whose body res.json() cannot parse, "json" a parsed *)
(* body {status, estado?, msg?}.                                           *)
RespRed ==
    [tipo |-> "red", http |-> 0, status |-> "", tieneEstado |-> FALSE,
     estado |-> EstadoNulo, msg |-> Indefinido]

RespNoJSON ==
    { [tipo |-> "nojson", http |-> h, status |-> "", tieneEstado |-> FALSE,
       estado |-> EstadoNulo, msg |-> Indefinido] : h \in {429, 500} }

\* the state every HTTP status is tried with
EstadoCine == [modo_actual |-> "CINE", carga_cpu |-> 88, latencia |-> 24]

RespJSON ==
    { [tipo |-> "json", http |-> 200, status |-> "success", tieneEstado |-> TRUE,
       estado |-> e, msg |-> MsgServidor] : e \in Estados }
    \cup
    { [tipo |-> "json", http |-> h, status |-> "success", tieneEstado |-> TRUE,
       estado |-> EstadoCine, msg |-> MsgServidor] : h \in Http }
    \cup
    { [tipo |-> "json", http |-> 200, status |-> s, tieneEstado |-> FALSE,
       estado |-> EstadoNulo, msg |-> MsgServidor] : s \in {"success", "info"} }
    \cup
    { [tipo |-> "json", http |-> h, status |-> "error", tieneEstado |-> FALSE,
       estado |-> EstadoNulo, msg |-> MsgServidor] : h \in Http }
    \cup
    { [tipo |-> "json", http |-> 200, status |-> "error", tieneEstado |-> FALSE,
       estado |-> EstadoNulo, msg |-> Indefinido] }

Respuestas == {RespRed} \cup RespNoJSON \cup RespJSON

(* number -> text, as assigning a number to textContent does *)
Digito(d) ==
    CASE d = 0 -> "0" [] d = 1 -> "1" [] d = 2 -> "2" [] d = 3 -> "3"
      [] d = 4 -> "4" [] d = 5 -> "5" [] d = 6 -> "6" [] d = 7 -> "7"
      [] d = 8 -> "8" [] d = 9 -> "9"

RECURSIVE Texto(_)
Texto(n) == IF n < 10 THEN Digito(n) ELSE Texto(n \div 10) \o Digito(n % 10)

\* textContent = v : undefined is shown as the empty string
TextContent(v) == IF v = Indefinido THEN "" ELSE v

(* ------------------------------ state ---------------------------------- *)
VARIABLES
    cargada,        \* DOMContentLoaded has run (the log timer is armed)
    btnActual,      \* the global btnActual
    modal,          \* modal-confirm style.display
    disabled,       \* btn.disabled of every control
    innerHTML,      \* btn.innerHTML: number of spinner spans after the label
    ui,             \* modo-val, cpu-val, latencia-val, kpi-estado classes
    notif,          \* the .notificacion element, if any
    enVuelo,        \* POST /api/cambiar_modo requests awaiting a response
    estadoEnVuelo,  \* GET /api/estado awaiting a response
    logsEnVuelo,    \* GET /api/historial requests awaiting a response
    logBox,         \* rows of log-box
    scrollTop,      \* log-box scrollTop
    guardia,        \* history: the Confirmation Guard as the user sees it
    ult,            \* history: the handler that ran last and what it was given
    \* admin page
    adminCargada,   \* DOMContentLoaded of the admin page has run
    adminEnVuelo,   \* admin requests awaiting a response
    tablaUsuarios,  \* rows of tabla-usuarios
    stats,          \* total-logs, usuarios-activos, cambios-hoy, errores-total
    modalLimpiar,   \* modal-limpiar-logs style.display
    diasMantener,   \* value of the input dias-mantener
    ultAdmin,       \* history: the admin handler that ran last
    \* admin page: tabs, user form, analytics, configuration
    tabActivo,      \* the tab-content that has the class active
    formUsuario,    \* modal-usuario: style.display, title, value of usuario-id
    chartUsuarios,  \* the global chartUsuarios
    chartEventos,   \* the global chartEventos
    chartsVivos,    \* Chart instances not destroyed, per canvas
    timelineModos,  \* content of timeline-modos
    configGrid,     \* content of config-grid
    renderizados,   \* history: tabs whose data has been rendered
    \* the notices of mostrarNotificacion, element by element
    avisos,         \* the .notificacion elements in the document, in order
    temporizadores, \* the setTimeout callbacks of the notices not yet run
    sigAviso,       \* history: how many notices were created, plus one
    ultAviso,       \* history: the notice step that ran last
    \* login page
    formLogin,      \* the values of the username and password inputs
    btnLogin,       \* btnLogin: disabled, innerHTML
    alertBox,       \* alert: textContent, className, style.display
    loginEnVuelo,   \* POST /login awaiting a response
    temporizadoresLogin, \* setTimeout callbacks of the login page not yet run
    ubicacion,      \* window.location.href
    ultLogin        \* history: the login handler that ran last

dashVars ==
    <<cargada, btnActual, modal, disabled, innerHTML, ui, notif, enVuelo,
      estadoEnVuelo, logsEnVuelo, logBox, scrollTop, guardia, ult>>

adminVars ==
    <<adminCargada, adminEnVuelo, tablaUsuarios, stats, modalLimpiar,
      diasMantener, ultAdmin>>

panelVars ==
    <<tabActivo, formUsuario, chartUsuarios, chartEventos, chartsVivos, timelineModos,
      configGrid, renderizados>>

avisoVars == <<avisos, temporizadores, sigAviso, ultAviso>>

loginVars ==
    <<formLogin, btnLogin, alertBox, loginEnVuelo, temporizadoresLogin,
      ubicacion, ultLogin>>

vars == <<dashVars, adminVars, panelVars, avisoVars, loginVars>>

(* --------------------------- notifications ----------------------------- *)
SinNotif == [mensaje |-> "", clase |-> "", fase |-> "ninguna"]

\* mostrarNotificacion: the previous notice is removed, the new one appended
MostrarNotificacion(mensaje, tipo) ==
    [mensaje |-> TextContent(mensaje), clase |-> "notificacion " \o tipo,
     fase |-> "visible"]

MsgLimite == "Demasiadas solicitudes. Espere un momento."
MsgConexionServidor == "Error de conexion con el servidor"
MsgConexion == "Error de conexion"
MsgApagado == "Sistema apagado correctamente"
MsgErrorEstado == "Error al cargar estado del sistema"

(* ------------------------------ render --------------------------------- *)
UiInicial == [modo |-> "", cpu |-> "", latencia |-> "", kpi |-> {"kpi"}]

ClaseEstado(modo) ==
    IF modo = "OFF" THEN "status-off"
    ELSE IF modo = "STANDBY" THEN "status-standby"
    ELSE "status-on"

\* variant: the CPU and latency fields are written to each other's element
ActualizarUICruzado(estado) ==
    [modo |-> estado.modo_actual,
     cpu |-> Texto(estado.latencia),
     latencia |-> Texto(estado.carga_cpu),
     kpi |-> {"kpi"} \cup {ClaseEstado(estado.modo_actual)}]

\* variant: only modo-val is written, the metrics stay from the render before
ActualizarUIParcial(estado) ==
    [modo |-> estado.modo_actual,
     cpu |-> ui.cpu,
     latencia |-> ui.latencia,
     kpi |-> {"kpi"} \cup {ClaseEstado(estado.modo_actual)}]

\* variant: the status class is added without resetting className first
ActualizarUISinReset(estado) ==
    [modo |-> estado.modo_actual,
     cpu |-> Texto(estado.carga_cpu),
     latencia |-> Texto(estado.latencia),
     kpi |-> ui.kpi \cup {ClaseEstado(estado.modo_actual)}]

ActualizarUI(estado) ==
    [modo |-> estado.modo_actual,
     cpu |-> Texto(estado.carga_cpu),
     latencia |-> Texto(estado.latencia),
     kpi |-> {"kpi"} \cup {ClaseEstado(estado.modo_actual)}]

(* --------------------------- history record ---------------------------- *)
SinPeticion == [fn |-> "", modo |-> "", confirmado |-> FALSE]

SinResp ==
    [tipo |-> "", http |-> 0, status |-> "", tieneEstado |-> FALSE,
     estado |-> EstadoNulo, msg |-> Indefinido]

\* ev: the handler; btn: its control; resp: the response it handled;
\* lanzo: it ended with an uncaught error; enviada: the request it sent;
\* antes: the label the control had when the settled request was dispatched;
\* tieneLogs, logs: the list a log response carried;
\* target: the element a window click landed on
Evento(ev, btn, resp, lanzo, enviada, antes) ==
    [ev |-> ev, btn |-> btn, tipo |-> resp.tipo, http |-> resp.http,
     status |-> resp.status, tieneEstado |-> resp.tieneEstado,
     estado |-> resp.estado, lanzo |-> lanzo, enviada |-> enviada,
     antes |-> antes, target |-> "", tieneLogs |-> FALSE, logs |-> <<>>]

\* the Confirmation Guard as the user drives it: Idle, or Pending with the
\* control whose activation opened the prompt
Idle == [estado |-> "Idle", btn |-> NULL]
Pending(btn) == [estado |-> "Pending", btn |-> btn]

(* ------------------------------- Init ---------------------------------- *)
InitDashboard ==
    /\ cargada = FALSE
    /\ btnActual = NULL
    /\ modal = "none"
    /\ disabled = [b \in Botones |-> FALSE]
    /\ innerHTML = [b \in Botones |-> 0]
    /\ ui = UiInicial
    /\ notif = SinNotif
    /\ enVuelo = EmptyBag
    /\ estadoEnVuelo = FALSE
    /\ logsEnVuelo = 0
    /\ logBox = <<>>
    /\ scrollTop = 0
    /\ guardia = Idle
    /\ ult = Evento("init", NULL, SinResp, FALSE, SinPeticion, 0)


(* --------------------------- page load --------------------------------- *)
DOMContentLoaded ==
    /\ UNCHANGED <<adminVars, panelVars, avisoVars, loginVars>>
    /\ ~cargada
    /\ cargada' = TRUE
    /\ estadoEnVuelo' = TRUE
    /\ logsEnVuelo' = logsEnVuelo + 1
    /\ ult' = Evento("DOMContentLoaded", NULL, SinResp, FALSE, SinPeticion, 0)
    /\ UNCHANGED <<btnActual, modal, disabled, innerHTML, ui, notif, enVuelo,
                   logBox, scrollTop, guardia>>

(* ------------------------- cargarEstadoActual -------------------------- *)
\* variant: res.ok is not looked at
EstadoLanzaSinOk(resp) ==
    \/ resp.tipo = "red"
    \/ resp.tipo = "nojson"
    \/ (resp.status = "success" /\ ~resp.tieneEstado)

\* the paths of cargarEstadoActual that end in its catch block
EstadoLanza(resp) ==
    \/ resp.tipo = "red"
    \/ ~Ok(resp.http)
    \/ resp.tipo = "nojson"
    \/ (resp.status = "success" /\ ~resp.tieneEstado)

\* the continuation of cargarEstadoActual after await fetch('/api/estado')
RespuestaEstado(resp) ==
    /\ UNCHANGED <<adminVars, panelVars, avisoVars, loginVars>>
    /\ estadoEnVuelo
    /\ estadoEnVuelo' = FALSE
    /\ IF EstadoLanza(resp)
         THEN /\ notif' = MostrarNotificacion(MsgErrorEstado, "error")
              /\ ui' = ui
         ELSE IF resp.status = "success"
           THEN /\ ui' = ActualizarUI(resp.estado)
                /\ notif' = notif
           ELSE UNCHANGED <<ui, notif>>
    /\ ult' = Evento("respuestaEstado", NULL, resp, FALSE, SinPeticion, 0)
    /\ UNCHANGED <<cargada, btnActual, modal, disabled, innerHTML, enVuelo,
                   logsEnVuelo, logBox, scrollTop, guardia>>

(* ------------------------------ cargarLogs ----------------------------- *)
Logs1 == <<[fecha |-> "t2", nivel |-> "ERROR"], [fecha |-> "t1", nivel |-> ""]>>
Logs2 == <<[fecha |-> "t3", nivel |-> ""]>>
ListasLogs == {Logs1, Logs2}

RespLogs ==
    { [tipo |-> "red", http |-> 0, status |-> "", tieneLogs |-> FALSE, logs |-> <<>>] }
    \cup { [tipo |-> "nojson", http |-> h, status |-> "", tieneLogs |-> FALSE,
            logs |-> <<>>] : h \in {200, 500} }
    \cup { [tipo |-> "json", http |-> h, status |-> s, tieneLogs |-> FALSE,
            logs |-> <<>>] : h \in {200, 500}, s \in {"success", "error"} }
    \cup { [tipo |-> "json", http |-> h, status |-> "success", tieneLogs |-> TRUE,
            logs |-> l] : h \in {200, 500}, l \in ListasLogs }

\* const nivel = log.nivel || 'INFO'
Nivel(log) == IF log.nivel = "" THEN "INFO" ELSE log.nivel

FilaLog(log) ==
    [clase |-> "log-row " \o Nivel(log), fecha |-> log.fecha, nivel |-> Nivel(log)]

\* variant: each row is put before the rows already written
FilasLogsAlReves(logs) == [i \in 1..Len(logs) |-> FilaLog(logs[Len(logs) + 1 - i])]

\* data.logs.forEach(log => caja.innerHTML += ...)
FilasLogs(logs) == [i \in 1..Len(logs) |-> FilaLog(logs[i])]

\* variant: a tick is skipped while a log request is in flight
TimerActivoSinSolape == cargada /\ logsEnVuelo = 0

\* setInterval(cargarLogs, 10000) is armed at load and never cleared
TimerActivo == cargada

\* a timer tick: cargarLogs up to its await, the request is sent
TimerLogs ==
    /\ UNCHANGED <<adminVars, panelVars, avisoVars, loginVars>>
    /\ TimerActivo
    /\ logsEnVuelo < MaxLogsEnVuelo
    /\ logsEnVuelo' = logsEnVuelo + 1
    /\ ult' = Evento("timerLogs", NULL, SinResp, FALSE, SinPeticion, 0)
    /\ UNCHANGED <<cargada, btnActual, modal, disabled, innerHTML, ui, notif,
                   enVuelo, estadoEnVuelo, logBox, scrollTop, guardia>>

\* variant: the catch block of cargarLogs tells the user
NotifTrasFalloLogsVisible == MostrarNotificacion("Error al cargar logs", "error")

\* the catch block of cargarLogs: console.error only
NotifTrasFalloLogs == notif

RespuestaLogs(resp) ==
    /\ UNCHANGED <<adminVars, panelVars, avisoVars, loginVars>>
    /\ logsEnVuelo > 0
    /\ logsEnVuelo' = logsEnVuelo - 1
    /\ notif' = IF resp.tipo = "red" \/ ~Ok(resp.http) \/ resp.tipo = "nojson"
                  THEN NotifTrasFalloLogs ELSE notif
    /\ IF resp.tipo = "red" \/ ~Ok(resp.http) \/ resp.tipo = "nojson"
         THEN UNCHANGED <<logBox, scrollTop>>
         ELSE IF resp.status # "success"
           THEN UNCHANGED <<logBox, scrollTop>>
           ELSE IF ~resp.tieneLogs
             \* caja.innerHTML = '' has run when data.logs.forEach throws
             THEN /\ logBox' = <<>>
                  /\ scrollTop' = scrollTop
             ELSE /\ logBox' = FilasLogs(resp.logs)
                  /\ scrollTop' = 0
    /\ ult' = [Evento("respuestaLogs", NULL, SinResp, FALSE, SinPeticion, 0)
                 EXCEPT !.tipo = resp.tipo, !.http = resp.http,
                        !.status = resp.status, !.tieneLogs = resp.tieneLogs,
                        !.logs = resp.logs]
    /\ UNCHANGED <<cargada, btnActual, modal, disabled, innerHTML, ui,
                   enVuelo, estadoEnVuelo, guardia>>

\* the user scrolls the log box
ScrollLogs ==
    /\ UNCHANGED <<adminVars, panelVars, avisoVars, loginVars>>
    /\ cargada
    /\ Len(logBox) > 0
    /\ scrollTop' = 1 - scrollTop
    /\ ult' = Evento("scroll", NULL, SinResp, FALSE, SinPeticion, 0)
    /\ UNCHANGED <<cargada, btnActual, modal, disabled, innerHTML, ui, notif,
                   enVuelo, estadoEnVuelo, logsEnVuelo, logBox, guardia>>

(* --------------------------- notification timer ------------------------ *)
\* the 4000 ms timer starts the exit animation and the 300 ms one it arms
\* removes the element (one step here: the notice stays in the document
\* while it animates); timers of notices already removed act on detached
\* elements
TimerNotif ==
    /\ UNCHANGED <<adminVars, panelVars, avisoVars, loginVars>>
    /\ notif.fase = "visible"
    /\ notif' = SinNotif
    /\ ult' = Evento("timerNotif", NULL, SinResp, FALSE, SinPeticion, 0)
    /\ UNCHANGED <<cargada, btnActual, modal, disabled, innerHTML, ui, enVuelo,
                   estadoEnVuelo, logsEnVuelo, logBox, scrollTop, guardia>>

(* ---------------------------- enviarComando ---------------------------- *)
\* btn.innerHTML + '<span class="spinner"></span>'
ConSpinner(html) == html + 1

\* variant: the label is read after the spinner was added
TextoConSpinner(btn) == ConSpinner(innerHTML[btn])

\* const textoOriginal = btn.innerHTML, read before the spinner is added
TextoOriginalDe(btn) == innerHTML[btn]

\* variant: enviarComando marks its request as confirmed
CuerpoComandoConfirmado(modo) ==
    [fn |-> "enviarComando", modo |-> modo, confirmado |-> TRUE]

\* body: JSON.stringify({ modo: modo })
CuerpoComando(modo) == [fn |-> "enviarComando", modo |-> modo, confirmado |-> FALSE]

\* variant: the confirmed request leaves the flag out
CuerpoApagadoSinConfirmar ==
    [fn |-> "confirmarApagadoFinal", modo |-> "OFF", confirmado |-> FALSE]

\* body: JSON.stringify({ modo: 'OFF', confirmado: true })
CuerpoApagado == [fn |-> "confirmarApagadoFinal", modo |-> "OFF", confirmado |-> TRUE]

\* a request awaiting its response, with the locals its continuation closes over
Pendiente(fn, btn) ==
    [fn |-> fn, btn |-> btn, textoOriginal |-> TextoOriginalDe(btn),
     antes |-> innerHTML[btn]]

\* variant: every control is disabled while one request is in flight
DisabledAlEnviarTodos(btn) == [b \in Botones |-> TRUE]

\* btn.disabled = true
DisabledAlEnviar(btn) == [disabled EXCEPT ![btn] = TRUE]

EnviarComando(modo, btn) ==
    /\ UNCHANGED <<adminVars, panelVars, avisoVars, loginVars>>
    /\ cargada
    /\ ~disabled[btn]
    /\ BagCardinality(enVuelo) < MaxEnVuelo
    /\ disabled' = DisabledAlEnviar(btn)
    /\ innerHTML' = [innerHTML EXCEPT ![btn] = ConSpinner(innerHTML[btn])]
    /\ enVuelo' = enVuelo (+) SetToBag({Pendiente("enviarComando", btn)})
    /\ ult' = Evento("enviarComando", btn, SinResp, FALSE, CuerpoComando(modo), 0)
    /\ UNCHANGED <<cargada, btnActual, modal, ui, notif, estadoEnVuelo,
                   logsEnVuelo, logBox, scrollTop, guardia>>

\* the catch block of enviarComando
CatchComando == [ui |-> ui, notif |-> MostrarNotificacion(MsgConexionServidor, "error"),
                 logs |-> FALSE]

\* lines 102-118: what the continuation does with the response
ManejarComando(resp) ==
    IF resp.tipo = "red" \/ resp.tipo = "nojson"
      THEN CatchComando
    ELSE IF resp.http = 429
      THEN [ui |-> ui, notif |-> MostrarNotificacion(MsgLimite, "error"), logs |-> FALSE]
    ELSE IF resp.status = "success"
      THEN IF resp.tieneEstado
             THEN [ui |-> ActualizarUI(resp.estado),
                   notif |-> MostrarNotificacion(resp.msg, "success"), logs |-> TRUE]
             \* actualizarUI(undefined) throws on its first line
             ELSE CatchComando
    ELSE IF resp.status = "info"
      THEN [ui |-> ui, notif |-> MostrarNotificacion(resp.msg, "info"), logs |-> FALSE]
    ELSE [ui |-> ui, notif |-> MostrarNotificacion(resp.msg, "error"), logs |-> FALSE]

\* the finally block: btn.disabled = false; btn.innerHTML = textoOriginal
DisabledTrasFinally(p) == [disabled EXCEPT ![p.btn] = FALSE]
InnerHTMLTrasFinally(p) == [innerHTML EXCEPT ![p.btn] = p.textoOriginal]

Asentar(p, resp, ev, ef) ==
    /\ ef.logs => logsEnVuelo < MaxLogsEnVuelo
    /\ ui' = ef.ui
    /\ notif' = ef.notif
    /\ logsEnVuelo' = IF ef.logs THEN logsEnVuelo + 1 ELSE logsEnVuelo
    /\ disabled' = DisabledTrasFinally(p)
    /\ innerHTML' = InnerHTMLTrasFinally(p)
    /\ enVuelo' = enVuelo (-) SetToBag({p})
    /\ ult' = Evento(ev, p.btn, resp, FALSE, SinPeticion, p.antes)
    /\ UNCHANGED <<cargada, btnActual, modal, estadoEnVuelo, logBox, scrollTop,
                   guardia>>

RespuestaComando(p, resp) ==
    /\ UNCHANGED <<adminVars, panelVars, avisoVars, loginVars>>
    /\ p.fn = "enviarComando"
    /\ Asentar(p, resp, "respuestaComando", ManejarComando(resp))

(* -------------------------- Confirmation Guard -------------------------- *)
ConfirmarApagado(btn) ==
    /\ UNCHANGED <<adminVars, panelVars, avisoVars, loginVars>>
    /\ cargada
    /\ ~disabled[btn]
    /\ btnActual' = btn
    /\ modal' = "block"
    /\ guardia' = Pending(btn)
    /\ ult' = Evento("confirmarApagado", btn, SinResp, FALSE, SinPeticion, 0)
    /\ UNCHANGED <<cargada, disabled, innerHTML, ui, notif, enVuelo,
                   estadoEnVuelo, logsEnVuelo, logBox, scrollTop>>

\* variant: cerrarModal clears the recorded control and leaves the prompt open
ModalSinCerrar == modal

\* cerrarModal: what it leaves in modal-confirm style.display and btnActual
ModalTrasCerrar == "none"
\* variant: cerrarModal hides the prompt and keeps the recorded control
BtnActualSinLimpiar == btnActual

BtnActualTrasCerrar == NULL

\* the cancel control of the prompt calls cerrarModal()
CerrarModal ==
    /\ UNCHANGED <<adminVars, panelVars, avisoVars, loginVars>>
    /\ cargada
    /\ modal' = ModalTrasCerrar
    /\ btnActual' = BtnActualTrasCerrar
    /\ guardia' = Idle
    /\ ult' = Evento("cerrarModal", btnActual, SinResp, FALSE, SinPeticion, 0)
    /\ UNCHANGED <<cargada, disabled, innerHTML, ui, notif, enVuelo,
                   estadoEnVuelo, logsEnVuelo, logBox, scrollTop>>

\* window.onclick: event.target is the prompt's backdrop or anything else
Objetivos == {"modal-confirm", "otro"}

WindowOnclick(target) ==
    /\ UNCHANGED <<adminVars, panelVars, avisoVars, loginVars>>
    /\ cargada
    /\ IF target = "modal-confirm"
         THEN /\ modal' = ModalTrasCerrar
              /\ btnActual' = BtnActualTrasCerrar
              /\ guardia' = Idle
         ELSE UNCHANGED <<modal, btnActual, guardia>>
    /\ ult' = [Evento("windowOnclick", btnActual, SinResp, FALSE, SinPeticion, 0)
                 EXCEPT !.target = target]
    /\ UNCHANGED <<cargada, disabled, innerHTML, ui, notif, enVuelo,
                   estadoEnVuelo, logsEnVuelo, logBox, scrollTop>>

\* variant: the check of line 148 is missing
HayBotonSiempre == TRUE

\* if (!btnActual) { cerrarModal(); return; }
HayBoton == btnActual # NULL

(* confirmarApagadoFinal is a global handler of the prompt's confirm       *)
(* control; line 148 guards the call that finds no pending control.        *)
(* Without a control, btn.disabled = true is a TypeError on null.          *)
ConfirmarApagadoFinal ==
    /\ UNCHANGED <<adminVars, panelVars, avisoVars, loginVars>>
    /\ cargada
    /\ modal' = ModalTrasCerrar
    /\ btnActual' = BtnActualTrasCerrar
    /\ guardia' = Idle
    /\ IF ~HayBoton
         THEN /\ ult' = Evento("confirmarApagadoFinal", btnActual, SinResp, FALSE,
                               SinPeticion, 0)
              /\ UNCHANGED <<disabled, innerHTML, enVuelo>>
         ELSE IF btnActual = NULL
           THEN /\ ult' = Evento("confirmarApagadoFinal", btnActual, SinResp, TRUE,
                                 SinPeticion, 0)
                /\ UNCHANGED <<disabled, innerHTML, enVuelo>>
           ELSE /\ BagCardinality(enVuelo) < MaxEnVuelo
                /\ disabled' = DisabledAlEnviar(btnActual)
                /\ innerHTML' = [innerHTML EXCEPT
                                   ![btnActual] = ConSpinner(TextoOriginalDe(btnActual))]
                /\ enVuelo' = enVuelo (+) SetToBag({Pendiente("confirmarApagadoFinal", btnActual)})
                /\ ult' = Evento("confirmarApagadoFinal", btnActual, SinResp, FALSE,
                                 CuerpoApagado, 0)
    /\ UNCHANGED <<cargada, ui, notif, estadoEnVuelo, logsEnVuelo, logBox, scrollTop>>

\* the catch block of confirmarApagadoFinal
CatchApagado == [ui |-> ui, notif |-> MostrarNotificacion(MsgConexion, "error"),
                 logs |-> FALSE]

\* lines 168-180
ManejarApagado(resp) ==
    IF resp.tipo = "red" \/ resp.tipo = "nojson"
      THEN CatchApagado
    ELSE IF resp.status = "success"
      THEN IF resp.tieneEstado
             THEN [ui |-> ActualizarUI(resp.estado),
                   notif |-> MostrarNotificacion(MsgApagado, "success"), logs |-> TRUE]
             ELSE CatchApagado
    ELSE [ui |-> ui, notif |-> MostrarNotificacion(resp.msg, "error"), logs |-> FALSE]

RespuestaApagado(p, resp) ==
    /\ UNCHANGED <<adminVars, panelVars, avisoVars, loginVars>>
    /\ p.fn = "confirmarApagadoFinal"
    /\ Asentar(p, resp, "respuestaApagado", ManejarApagado(resp))

(* ============================ admin page ================================ *)
UserIds == {1, 2}

Usuario(id) == [id |-> id, activo |-> TRUE]

\* user lists GET /api/admin/usuarios answers with
ListasUsuarios == {<<>>, <<Usuario(1)>>, <<Usuario(1), Usuario(2)>>}

\* statistics GET /api/admin/estadisticas answers with
Estadisticas == {[total_logs |-> 0, usuarios_activos |-> 1],
                 [total_logs |-> 7, usuarios_activos |-> 2]}

\* counts POST /api/admin/logs/limpiar answers with
Eliminados == {0, 12}

\* values the user can type into dias-mantener, as sequences of characters
ValoresDias == {<<"3", "0">>, <<"7">>, <<>>, <<"x">>}

EsDigito(c) == c \in {"0", "1", "2", "3", "4", "5", "6", "7", "8", "9"}

ValorDigito(c) ==
    CASE c = "0" -> 0 [] c = "1" -> 1 [] c = "2" -> 2 [] c = "3" -> 3
      [] c = "4" -> 4 [] c = "5" -> 5 [] c = "6" -> 6 [] c = "7" -> 7
      [] c = "8" -> 8 [] c = "9" -> 9

RECURSIVE Prefijo(_, _)
Prefijo(cs, acc) ==
    IF cs = <<>> \/ ~EsDigito(Head(cs)) THEN acc
    ELSE Prefijo(Tail(cs), 10 * acc + ValorDigito(Head(cs)))

\* JSON.stringify({ dias: parseInt(dias) }): the leading digits, NaN -> null
CuerpoDias(cs) ==
    IF cs = <<>> \/ ~EsDigito(Head(cs)) THEN "null" ELSE Texto(Prefijo(cs, 0))

SinPeticionAdmin == [metodo |-> "", url |-> "", id |-> 0, cuerpo |-> ""]

PeticionEliminar(userId) ==
    [metodo |-> "DELETE", url |-> "/api/admin/usuarios/", id |-> userId, cuerpo |-> ""]

PeticionLimpiar(cs) ==
    [metodo |-> "POST", url |-> "/api/admin/logs/limpiar", id |-> 0,
     cuerpo |-> CuerpoDias(cs)]

\* a settled admin fetch; the admin handlers never read the HTTP status
RespAdminFallo ==
    { [tipo |-> t, status |-> "", error |-> Indefinido, eliminados |-> 0,
       usuarios |-> <<>>, estadisticas |-> [total_logs |-> 0, usuarios_activos |-> 0]] :
         t \in {"red", "nojson"} }

RespAdminError ==
    { [tipo |-> "json", status |-> "error", error |-> e, eliminados |-> 0,
       usuarios |-> <<>>, estadisticas |-> [total_logs |-> 0, usuarios_activos |-> 0]] :
         e \in {"msg-error", Indefinido} }

RespAdminExito(ns, us, es) ==
    { [tipo |-> "json", status |-> "success", error |-> Indefinido, eliminados |-> n,
       usuarios |-> u, estadisticas |-> e] : n \in ns, u \in us, e \in es }

EstSinDatos == {[total_logs |-> 0, usuarios_activos |-> 0]}

RespEliminar == RespAdminFallo \cup RespAdminError \cup RespAdminExito({0}, {<<>>}, EstSinDatos)
RespLimpiar == RespAdminFallo \cup RespAdminError \cup RespAdminExito(Eliminados, {<<>>}, EstSinDatos)
RespUsuarios == RespAdminFallo \cup RespAdminError \cup RespAdminExito({0}, ListasUsuarios, EstSinDatos)
RespEstadisticas == RespAdminFallo \cup RespAdminError \cup RespAdminExito({0}, {<<>>}, Estadisticas)

SinAlerta == ""
AlertaError(resp) ==
    "Error: " \o (IF resp.error = Indefinido THEN "Error desconocido" ELSE resp.error)
\* variant: the alert reports a fixed count
AlertaLimpiezaFija(resp) ==
    "Limpieza completada. " \o Texto(0) \o " registros eliminados"

\* alert(`Limpieza completada. ${data.eliminados} registros eliminados`)
AlertaLimpieza(resp) ==
    "Limpieza completada. " \o Texto(resp.eliminados) \o " registros eliminados"

\* ev: the handler; id: the user it was called for; acepta: the answer to its
\* confirm(); enviadas: the requests it sent; alerta: the alert() it raised;
\* datos: the response carried the data its handler renders
EventoAdmin(ev, id, acepta, enviadas, alerta, resp) ==
    [ev |-> ev, id |-> id, acepta |-> acepta, enviadas |-> enviadas,
     alerta |-> alerta, tipo |-> resp.tipo, status |-> resp.status,
     eliminados |-> resp.eliminados, datos |-> FALSE]

SinRespAdmin ==
    [tipo |-> "", status |-> "", error |-> Indefinido, eliminados |-> 0,
     usuarios |-> <<>>, estadisticas |-> [total_logs |-> 0, usuarios_activos |-> 0]]

PendAdmin(fn, id) == [fn |-> fn, id |-> id]

\* GET requests sent by cargarUsuarios() and cargarEstadisticas()
GetUsuarios == [metodo |-> "GET", url |-> "/api/admin/usuarios", id |-> 0, cuerpo |-> ""]
GetEstadisticas == [metodo |-> "GET", url |-> "/api/admin/estadisticas", id |-> 0, cuerpo |-> ""]

\* the request buscarLogs() sends to load the log table
PostBuscarLogs ==
    [metodo |-> "POST", url |-> "/api/admin/logs/buscar", id |-> 0, cuerpo |-> "filtros"]

Recargar ==
    SetToBag({PendAdmin("cargarUsuarios", 0)}) (+) SetToBag({PendAdmin("cargarEstadisticas", 0)})

InitAdmin ==
    /\ adminCargada = FALSE
    /\ adminEnVuelo = EmptyBag
    /\ tablaUsuarios = <<>>
    /\ stats = [total_logs |-> "", usuarios_activos |-> ""]
    /\ modalLimpiar = "none"
    /\ diasMantener = <<"3", "0">>
    /\ ultAdmin = EventoAdmin("init", 0, FALSE, {}, SinAlerta, SinRespAdmin)

AdminDOMContentLoaded ==
    /\ UNCHANGED <<dashVars, panelVars, avisoVars, loginVars>>
    /\ ~adminCargada
    /\ adminCargada' = TRUE
    /\ adminEnVuelo' = adminEnVuelo (+) Recargar
    /\ ultAdmin' = EventoAdmin("DOMContentLoaded", 0, FALSE,
                               {GetEstadisticas, GetUsuarios}, SinAlerta, SinRespAdmin)
    /\ UNCHANGED <<tablaUsuarios, stats, modalLimpiar, diasMantener>>

\* stats.total_logs || 0 : the value as text
RespuestaEstadisticas(p, resp) ==
    /\ UNCHANGED <<dashVars, panelVars, avisoVars, loginVars>>
    /\ p.fn = "cargarEstadisticas"
    /\ adminEnVuelo' = adminEnVuelo (-) SetToBag({p})
    /\ stats' = IF resp.tipo = "json" /\ resp.status = "success"
                  THEN [total_logs |-> Texto(resp.estadisticas.total_logs),
                        usuarios_activos |-> Texto(resp.estadisticas.usuarios_activos)]
                  ELSE stats
    /\ ultAdmin' = EventoAdmin("respuestaEstadisticas", 0, FALSE, {}, SinAlerta, resp)
    /\ UNCHANGED <<adminCargada, tablaUsuarios, modalLimpiar, diasMantener>>

\* the rows cargarUsuarios renders: one per user, each with its delete control
RespuestaUsuarios(p, resp) ==
    /\ UNCHANGED <<dashVars, avisoVars, loginVars>>
    /\ renderizados' = IF resp.tipo = "json" /\ resp.status = "success"
                         THEN renderizados \cup {"usuarios"} ELSE renderizados
    /\ UNCHANGED <<tabActivo, formUsuario, chartUsuarios, chartEventos, chartsVivos,
                   timelineModos, configGrid>>
    /\ p.fn = "cargarUsuarios"
    /\ adminEnVuelo' = adminEnVuelo (-) SetToBag({p})
    /\ tablaUsuarios' = IF resp.tipo = "json" /\ resp.status = "success"
                          THEN resp.usuarios
                          ELSE tablaUsuarios
    /\ ultAdmin' = EventoAdmin("respuestaUsuarios", 0, FALSE, {}, SinAlerta, resp)
    /\ UNCHANGED <<adminCargada, stats, modalLimpiar, diasMantener>>

\* ids whose row, and so whose delete control, is on the page
IdsEnTabla == {tablaUsuarios[i].id : i \in 1..Len(tablaUsuarios)}

\* variant: the answer to confirm() is ignored
ConfirmaEliminarSiempre(acepta) == TRUE

\* if (!confirm('...desactivar este usuario?')) return;
ConfirmaEliminar(acepta) == acepta

confirmarEliminarUsuario(userId, acepta) ==
    /\ UNCHANGED <<dashVars, panelVars, avisoVars, loginVars>>
    /\ adminCargada
    /\ userId \in IdsEnTabla
    /\ IF ConfirmaEliminar(acepta)
         THEN /\ BagCardinality(adminEnVuelo) < MaxAdminEnVuelo
              /\ adminEnVuelo' = adminEnVuelo (+)
                                   SetToBag({PendAdmin("confirmarEliminarUsuario", userId)})
              /\ ultAdmin' = EventoAdmin("confirmarEliminarUsuario", userId, acepta,
                                         {PeticionEliminar(userId)}, SinAlerta, SinRespAdmin)
         ELSE /\ adminEnVuelo' = adminEnVuelo
              /\ ultAdmin' = EventoAdmin("confirmarEliminarUsuario", userId, acepta,
                                         {}, SinAlerta, SinRespAdmin)
    /\ UNCHANGED <<adminCargada, tablaUsuarios, stats, modalLimpiar, diasMantener>>

RespuestaEliminar(p, resp) ==
    /\ UNCHANGED <<dashVars, panelVars, avisoVars, loginVars>>
    /\ p.fn = "confirmarEliminarUsuario"
    /\ IF resp.tipo # "json"
         THEN /\ adminEnVuelo' = adminEnVuelo (-) SetToBag({p})
              /\ ultAdmin' = EventoAdmin("respuestaEliminar", p.id, FALSE, {},
                                         "Error de conexion", resp)
         ELSE IF resp.status = "success"
           THEN /\ BagCardinality(adminEnVuelo) + 1 <= MaxAdminEnVuelo
                /\ adminEnVuelo' = (adminEnVuelo (-) SetToBag({p})) (+) Recargar
                /\ ultAdmin' = EventoAdmin("respuestaEliminar", p.id, FALSE,
                                           {GetUsuarios, GetEstadisticas},
                                           "Usuario desactivado correctamente", resp)
           ELSE /\ adminEnVuelo' = adminEnVuelo (-) SetToBag({p})
                /\ ultAdmin' = EventoAdmin("respuestaEliminar", p.id, FALSE, {},
                                           AlertaError(resp), resp)
    /\ UNCHANGED <<adminCargada, tablaUsuarios, stats, modalLimpiar, diasMantener>>

mostrarModalLimpiarLogs ==
    /\ UNCHANGED <<dashVars, panelVars, avisoVars, loginVars>>
    /\ adminCargada
    /\ modalLimpiar' = "block"
    /\ ultAdmin' = EventoAdmin("mostrarModalLimpiarLogs", 0, FALSE, {}, SinAlerta, SinRespAdmin)
    /\ UNCHANGED <<adminCargada, adminEnVuelo, tablaUsuarios, stats, diasMantener>>

cerrarModalLimpiarLogs ==
    /\ UNCHANGED <<dashVars, panelVars, avisoVars, loginVars>>
    /\ adminCargada
    /\ modalLimpiar' = "none"
    /\ ultAdmin' = EventoAdmin("cerrarModalLimpiarLogs", 0, FALSE, {}, SinAlerta, SinRespAdmin)
    /\ UNCHANGED <<adminCargada, adminEnVuelo, tablaUsuarios, stats, diasMantener>>

\* the elements of class modal
ModalesAdmin == {"modal-limpiar-logs", "modal-usuario"}

\* window.onclick of the admin page: a click on a modal's backdrop hides it
AdminWindowOnclick(target) ==
    /\ UNCHANGED <<dashVars, avisoVars, loginVars>>
    /\ adminCargada
    /\ formUsuario' = IF target = "modal-usuario"
                        THEN [formUsuario EXCEPT !.display = "none"] ELSE formUsuario
    /\ UNCHANGED <<tabActivo, chartUsuarios, chartEventos, chartsVivos, timelineModos,
                   configGrid, renderizados>>
    /\ modalLimpiar' = IF target = "modal-limpiar-logs" THEN "none" ELSE modalLimpiar
    /\ ultAdmin' = EventoAdmin("windowOnclick", 0, FALSE, {}, SinAlerta, SinRespAdmin)
    /\ UNCHANGED <<adminCargada, adminEnVuelo, tablaUsuarios, stats, diasMantener>>

\* the user edits dias-mantener in the cleanup dialog
EditarDias(cs) ==
    /\ UNCHANGED <<dashVars, panelVars, avisoVars, loginVars>>
    /\ adminCargada
    /\ modalLimpiar = "block"
    /\ cs # diasMantener
    /\ diasMantener' = cs
    /\ ultAdmin' = EventoAdmin("editarDias", 0, FALSE, {}, SinAlerta, SinRespAdmin)
    /\ UNCHANGED <<adminCargada, adminEnVuelo, tablaUsuarios, stats, modalLimpiar>>

\* if (!confirm(`Se eliminaran todos los logs ... Continuar?`)) return;
ConfirmaLimpieza(acepta) == acepta

ejecutarLimpiezaLogs(acepta) ==
    /\ UNCHANGED <<dashVars, panelVars, avisoVars, loginVars>>
    /\ adminCargada
    /\ modalLimpiar = "block"
    /\ IF ConfirmaLimpieza(acepta)
         THEN /\ BagCardinality(adminEnVuelo) < MaxAdminEnVuelo
              /\ adminEnVuelo' = adminEnVuelo (+)
                                   SetToBag({PendAdmin("ejecutarLimpiezaLogs", 0)})
              /\ ultAdmin' = EventoAdmin("ejecutarLimpiezaLogs", 0, acepta,
                                         {PeticionLimpiar(diasMantener)}, SinAlerta,
                                         SinRespAdmin)
         ELSE /\ adminEnVuelo' = adminEnVuelo
              /\ ultAdmin' = EventoAdmin("ejecutarLimpiezaLogs", 0, acepta, {},
                                         SinAlerta, SinRespAdmin)
    /\ UNCHANGED <<adminCargada, tablaUsuarios, stats, modalLimpiar, diasMantener>>

RespuestaLimpieza(p, resp) ==
    /\ UNCHANGED <<dashVars, panelVars, avisoVars, loginVars>>
    /\ p.fn = "ejecutarLimpiezaLogs"
    /\ adminEnVuelo' = IF resp.tipo = "json" /\ resp.status = "success"
                         THEN (adminEnVuelo (-) SetToBag({p}))
                                (+) SetToBag({PendAdmin("cargarEstadisticas", 0)})
                         ELSE adminEnVuelo (-) SetToBag({p})
    /\ modalLimpiar' = IF resp.tipo = "json" /\ resp.status = "success"
                         THEN "none" ELSE modalLimpiar
    /\ ultAdmin' =
         IF resp.tipo # "json"
           THEN EventoAdmin("respuestaLimpieza", 0, FALSE, {}, "Error de conexion", resp)
           ELSE IF resp.status = "success"
             THEN EventoAdmin("respuestaLimpieza", 0, FALSE, {GetEstadisticas},
                              AlertaLimpieza(resp), resp)
             ELSE EventoAdmin("respuestaLimpieza", 0, FALSE, {}, AlertaError(resp), resp)
    /\ UNCHANGED <<adminCargada, tablaUsuarios, stats, diasMantener>>

(* ================= admin page: tabs, user form, analytics ================ *)
Tabs == {"usuarios", "logs", "analiticas", "config"}

GetChartUsuarios ==
    [metodo |-> "GET", url |-> "/api/admin/analiticas/usuarios?limite=5", id |-> 0,
     cuerpo |-> ""]
GetChartEventos ==
    [metodo |-> "GET", url |-> "/api/admin/analiticas/uso-por-modo", id |-> 0,
     cuerpo |-> ""]
GetTimelineModos ==
    [metodo |-> "GET", url |-> "/api/admin/analiticas/timeline-modos?limite=20",
     id |-> 0, cuerpo |-> ""]
GetConfiguraciones ==
    [metodo |-> "GET", url |-> "/api/admin/configuraciones", id |-> 0, cuerpo |-> ""]

\* the request each loader sends
PeticionDe(fn) ==
    CASE fn = "cargarUsuarios" -> GetUsuarios
      [] fn = "cargarEstadisticas" -> GetEstadisticas
      [] fn = "cargarChartUsuarios" -> GetChartUsuarios
      [] fn = "cargarChartEventos" -> GetChartEventos
      [] fn = "cargarTimelineModos" -> GetTimelineModos
      [] fn = "cargarConfiguraciones" -> GetConfiguraciones

\* the loaders a call runs up to their first await
Lanzar(fns) == SetToBag({PendAdmin(fn, 0) : fn \in fns})

\* cargarAnaliticas up to its first await: only cargarChartUsuarios has run
CargarAnaliticas == {"cargarChartUsuarios"}

\* the switch of cambiarTab
CargasDeTab(tabName) ==
    CASE tabName = "usuarios" -> {"cargarUsuarios"}
      [] tabName = "logs" -> {}
      [] tabName = "analiticas" -> CargarAnaliticas
      [] tabName = "config" -> {"cargarConfiguraciones"}

InitPanel ==
    /\ tabActivo = "usuarios"
    /\ formUsuario = [display |-> "none", titulo |-> "", id |-> 0]
    /\ chartUsuarios = NULL
    /\ chartEventos = NULL
    /\ chartsVivos = [usuarios |-> 0, eventos |-> 0]
    /\ timelineModos = "inicial"
    /\ configGrid = "inicial"
    /\ renderizados = {}

cambiarTab(tabName) ==
    /\ UNCHANGED <<dashVars, avisoVars, loginVars>>
    /\ adminCargada
    /\ BagCardinality(adminEnVuelo) + Cardinality(CargasDeTab(tabName)) <= MaxPanelEnVuelo
    /\ tabActivo' = tabName
    /\ adminEnVuelo' = adminEnVuelo (+) Lanzar(CargasDeTab(tabName))
    /\ ultAdmin' = EventoAdmin("cambiarTab", 0, FALSE,
                               {PeticionDe(fn) : fn \in CargasDeTab(tabName)},
                               SinAlerta, SinRespAdmin)
    /\ UNCHANGED <<adminCargada, tablaUsuarios, stats, modalLimpiar, diasMantener,
                   formUsuario, chartUsuarios, chartEventos, chartsVivos, timelineModos,
                   configGrid, renderizados>>

(* ------------------------------ user form ------------------------------- *)
\* userId = null opens the form for a new user; the value of usuario-id is
\* the id, 0 standing for the empty string
mostrarModalUsuario(userId) ==
    /\ UNCHANGED <<dashVars, avisoVars, loginVars>>
    /\ adminCargada
    /\ userId # 0 => userId \in IdsEnTabla
    /\ formUsuario' =
         IF userId # 0
           THEN [display |-> "block", titulo |-> "Editar Usuario", id |-> userId]
           ELSE [display |-> "block", titulo |-> "Nuevo Usuario", id |-> 0]
    /\ ultAdmin' = EventoAdmin("mostrarModalUsuario", userId, FALSE, {}, SinAlerta,
                               SinRespAdmin)
    /\ UNCHANGED <<adminCargada, adminEnVuelo, tablaUsuarios, stats, modalLimpiar,
                   diasMantener, tabActivo, chartUsuarios, chartEventos, chartsVivos,
                   timelineModos, configGrid, renderizados>>

\* cerrarModalUsuario: the form is hidden and reset; reset() restores the
\* default of usuario-id or leaves it, depending on the kind of input it is
FormTrasCerrar == {[formUsuario EXCEPT !.display = "none"],
                   [formUsuario EXCEPT !.display = "none", !.id = 0]}

cerrarModalUsuario ==
    /\ UNCHANGED <<dashVars, avisoVars, loginVars>>
    /\ adminCargada
    /\ formUsuario.display = "block"
    /\ formUsuario' \in FormTrasCerrar
    /\ ultAdmin' = EventoAdmin("cerrarModalUsuario", 0, FALSE, {}, SinAlerta,
                               SinRespAdmin)
    /\ UNCHANGED <<adminCargada, adminEnVuelo, tablaUsuarios, stats, modalLimpiar,
                   diasMantener, tabActivo, chartUsuarios, chartEventos, chartsVivos,
                   timelineModos, configGrid, renderizados>>

\* body: JSON.stringify(datos); datos has username, password, nombre_completo,
\* email and rol, and no id: userId is read and not used
PeticionGuardar(userId) ==
    [metodo |-> "POST", url |-> "/api/admin/usuarios", id |-> 0, cuerpo |-> "datos"]

guardarUsuario ==
    /\ UNCHANGED <<dashVars, avisoVars, loginVars>>
    /\ adminCargada
    /\ formUsuario.display = "block"
    /\ BagCardinality(adminEnVuelo) < MaxAdminEnVuelo
    /\ adminEnVuelo' = adminEnVuelo (+) SetToBag({PendAdmin("guardarUsuario", 0)})
    /\ ultAdmin' = EventoAdmin("guardarUsuario", formUsuario.id, FALSE,
                               {PeticionGuardar(formUsuario.id)}, SinAlerta, SinRespAdmin)
    /\ UNCHANGED <<adminCargada, tablaUsuarios, stats, modalLimpiar, diasMantener>>
    /\ UNCHANGED panelVars

RespGuardar == RespAdminFallo \cup RespAdminError \cup RespAdminExito({0}, {<<>>}, EstSinDatos)

RespuestaGuardar(p, resp) ==
    /\ UNCHANGED <<dashVars, avisoVars, loginVars>>
    /\ p.fn = "guardarUsuario"
    /\ IF resp.tipo # "json"
         THEN /\ adminEnVuelo' = adminEnVuelo (-) SetToBag({p})
              /\ formUsuario' = formUsuario
              /\ ultAdmin' = EventoAdmin("respuestaGuardar", 0, FALSE, {},
                                         "Error de conexion", resp)
         ELSE IF resp.status = "success"
           THEN /\ BagCardinality(adminEnVuelo) + 1 <= MaxAdminEnVuelo
                /\ adminEnVuelo' = (adminEnVuelo (-) SetToBag({p})) (+) Recargar
                /\ formUsuario' \in FormTrasCerrar
                /\ ultAdmin' = EventoAdmin("respuestaGuardar", 0, FALSE,
                                           {GetUsuarios, GetEstadisticas},
                                           "Usuario guardado correctamente", resp)
           ELSE /\ adminEnVuelo' = adminEnVuelo (-) SetToBag({p})
                /\ formUsuario' = formUsuario
                /\ ultAdmin' = EventoAdmin("respuestaGuardar", 0, FALSE, {},
                                           AlertaError(resp), resp)
    /\ UNCHANGED <<adminCargada, tablaUsuarios, stats, modalLimpiar, diasMantener,
                   tabActivo, chartUsuarios, chartEventos, chartsVivos, timelineModos,
                   configGrid, renderizados>>

(* ------------------------------ analytics ------------------------------- *)
(* A settled analytics or configuration fetch: a rejected fetch, a body    *)
(* res.json() cannot parse, an error body, a success body with the data    *)
(* its loader renders, or a success body without it (building the chart    *)
(* or the list then throws).                                               *)
RespAnalitica ==
    { [tipo |-> t, status |-> "", eliminados |-> 0, datos |-> FALSE] :
        t \in {"red", "nojson"} }
    \cup { [tipo |-> "json", status |-> "error", eliminados |-> 0, datos |-> FALSE] }
    \cup { [tipo |-> "json", status |-> "success", eliminados |-> 0, datos |-> d] :
             d \in BOOLEAN }

ExitoAnalitica(resp) == resp.tipo = "json" /\ resp.status = "success"

\* variant: an error in a loader ends cargarAnaliticas
SiguienteCargaSiExito(fn, resp) ==
    IF ExitoAnalitica(resp) /\ resp.datos
      THEN CASE fn = "cargarChartUsuarios" -> {"cargarChartEventos"}
             [] fn = "cargarChartEventos" -> {"cargarTimelineModos"}
             [] fn = "cargarTimelineModos" -> {}
      ELSE {}

(* cargarAnaliticas awaits each loader in turn; every loader catches its   *)
(* own errors, so its promise resolves whatever the response was.          *)
SiguienteCarga(fn, resp) ==
    CASE fn = "cargarChartUsuarios" -> {"cargarChartEventos"}
      [] fn = "cargarChartEventos" -> {"cargarTimelineModos"}
      [] fn = "cargarTimelineModos" -> {}

\* variant: the chart recorded is not destroyed before the new one is built
NoDestruye(chart) == FALSE

\* if (chartUsuarios) { chartUsuarios.destroy(); } : a live chart is recorded
\* (destroy() on a chart already destroyed does nothing)
DestruyeAnterior(chart) == chart = "vivo"

\* the chart variable after the loader handled resp: the recorded chart is
\* destroyed, and new Chart(...) is assigned only if building it did not throw
ChartTras(chart, resp) ==
    IF ~ExitoAnalitica(resp) THEN chart
    ELSE IF resp.datos THEN "vivo"
    ELSE IF chart = NULL THEN NULL ELSE "destruido"

\* the live Chart instances of the canvas after the loader handled resp
VivosTras(n, chart, resp) ==
    IF ~ExitoAnalitica(resp) THEN n
    ELSE (IF DestruyeAnterior(chart) THEN n - 1 ELSE n)
           + (IF resp.datos THEN 1 ELSE 0)

\* container.innerHTML = '' runs before data.timeline / data.configuraciones
\* is read
ListaTras(lista, resp) ==
    IF ExitoAnalitica(resp)
      THEN IF resp.datos THEN "dibujado" ELSE "vacio"
      ELSE lista

EventoAnalitica(ev, fn, resp) ==
    [EventoAdmin(ev, 0, FALSE, {PeticionDe(f) : f \in SiguienteCarga(fn, resp)},
                 SinAlerta, resp)
       EXCEPT !.datos = resp.datos]

RenderizadosTras(tab, resp) ==
    IF ExitoAnalitica(resp) /\ resp.datos THEN renderizados \cup {tab} ELSE renderizados

RespuestaChartUsuarios(p, resp) ==
    /\ UNCHANGED <<dashVars, avisoVars, loginVars>>
    /\ p.fn = "cargarChartUsuarios"
    /\ chartUsuarios' = ChartTras(chartUsuarios, resp)
    /\ chartsVivos' = [chartsVivos EXCEPT
                         !.usuarios = VivosTras(@, chartUsuarios, resp)]
    /\ adminEnVuelo' = (adminEnVuelo (-) SetToBag({p})) (+) Lanzar(SiguienteCarga(p.fn, resp))
    /\ renderizados' = RenderizadosTras("analiticas", resp)
    /\ ultAdmin' = EventoAnalitica("respuestaChartUsuarios", p.fn, resp)
    /\ UNCHANGED <<adminCargada, tablaUsuarios, stats, modalLimpiar, diasMantener,
                   tabActivo, formUsuario, chartEventos, timelineModos, configGrid>>

RespuestaChartEventos(p, resp) ==
    /\ UNCHANGED <<dashVars, avisoVars, loginVars>>
    /\ p.fn = "cargarChartEventos"
    /\ chartEventos' = ChartTras(chartEventos, resp)
    /\ chartsVivos' = [chartsVivos EXCEPT
                         !.eventos = VivosTras(@, chartEventos, resp)]
    /\ adminEnVuelo' = (adminEnVuelo (-) SetToBag({p})) (+) Lanzar(SiguienteCarga(p.fn, resp))
    /\ renderizados' = RenderizadosTras("analiticas", resp)
    /\ ultAdmin' = EventoAnalitica("respuestaChartEventos", p.fn, resp)
    /\ UNCHANGED <<adminCargada, tablaUsuarios, stats, modalLimpiar, diasMantener,
                   tabActivo, formUsuario, chartUsuarios, timelineModos, configGrid>>

RespuestaTimelineModos(p, resp) ==
    /\ UNCHANGED <<dashVars, avisoVars, loginVars>>
    /\ p.fn = "cargarTimelineModos"
    /\ timelineModos' = ListaTras(timelineModos, resp)
    /\ adminEnVuelo' = (adminEnVuelo (-) SetToBag({p})) (+) Lanzar(SiguienteCarga(p.fn, resp))
    /\ renderizados' = RenderizadosTras("analiticas", resp)
    /\ ultAdmin' = EventoAnalitica("respuestaTimelineModos", p.fn, resp)
    /\ UNCHANGED <<adminCargada, tablaUsuarios, stats, modalLimpiar, diasMantener,
                   tabActivo, formUsuario, chartUsuarios, chartEventos, chartsVivos, configGrid>>

RespuestaConfiguraciones(p, resp) ==
    /\ UNCHANGED <<dashVars, avisoVars, loginVars>>
    /\ p.fn = "cargarConfiguraciones"
    /\ configGrid' = ListaTras(configGrid, resp)
    /\ adminEnVuelo' = adminEnVuelo (-) SetToBag({p})
    /\ renderizados' = RenderizadosTras("config", resp)
    /\ ultAdmin' = [EventoAdmin("respuestaConfiguraciones", 0, FALSE, {}, SinAlerta, resp)
                      EXCEPT !.datos = resp.datos]
    /\ UNCHANGED <<adminCargada, tablaUsuarios, stats, modalLimpiar, diasMantener,
                   tabActivo, formUsuario, chartUsuarios, chartEventos, chartsVivos, timelineModos>>

\* the responses to the two loads of the page that the tab and form
\* behaviours are tried with
RespEstadisticasBreve ==
    { r \in RespEstadisticas :
        r.tipo = "red" \/ (r.status = "success" /\ r.estadisticas.total_logs = 7) }
RespConfiguracionesBreve ==
    { r \in RespAnalitica : r.tipo = "red" \/ r.status = "success" }
RespUsuariosBreve ==
    { r \in RespUsuarios : r.tipo = "red" \/ (r.status = "success" /\ Len(r.usuarios) = 1) }

\* the admin page: tabs, analytics, configuration
NextPanel ==
    \/ AdminDOMContentLoaded
    \/ \E p \in BagToSet(adminEnVuelo), resp \in RespEstadisticasBreve : RespuestaEstadisticas(p, resp)
    \/ \E p \in BagToSet(adminEnVuelo), resp \in RespUsuariosBreve : RespuestaUsuarios(p, resp)
    \/ \E tabName \in Tabs : cambiarTab(tabName)
    \/ \E p \in BagToSet(adminEnVuelo), resp \in RespAnalitica : RespuestaChartUsuarios(p, resp)
    \/ \E p \in BagToSet(adminEnVuelo), resp \in RespAnalitica : RespuestaChartEventos(p, resp)
    \/ \E p \in BagToSet(adminEnVuelo), resp \in RespAnalitica : RespuestaTimelineModos(p, resp)
    \/ \E p \in BagToSet(adminEnVuelo), resp \in RespConfiguracionesBreve : RespuestaConfiguraciones(p, resp)

\* the admin page: the user form
NextUsuarios ==
    \/ AdminDOMContentLoaded
    \/ \E p \in BagToSet(adminEnVuelo), resp \in RespEstadisticasBreve : RespuestaEstadisticas(p, resp)
    \/ \E p \in BagToSet(adminEnVuelo), resp \in RespUsuarios : RespuestaUsuarios(p, resp)
    \/ \E userId \in {0} \cup UserIds : mostrarModalUsuario(userId)
    \/ cerrarModalUsuario
    \/ \E target \in ModalesAdmin \cup {"otro"} : AdminWindowOnclick(target)
    \/ guardarUsuario
    \/ \E p \in BagToSet(adminEnVuelo), resp \in RespGuardar : RespuestaGuardar(p, resp)

(* ================== mostrarNotificacion, element by element ============== *)
TiposAviso == {"success", "error", "info"}

InitAvisos ==
    /\ avisos = <<>>
    /\ temporizadores = {}
    /\ sigAviso = 1
    /\ ultAviso = [ev |-> "init", id |-> 0]

IdsDe(doc) == {doc[i].id : i \in 1..Len(doc)}

\* document.querySelector('.notificacion') finds the first notice in the
\* document; if there is one it is removed
SinAnterior(doc) == IF doc = <<>> THEN doc ELSE Tail(doc)

\* mostrarNotificacion(mensaje, tipo): the new element is appended and its
\* 4000 ms timer armed
MostrarAviso(tipo) ==
    /\ UNCHANGED <<dashVars, adminVars, panelVars, loginVars>>
    /\ sigAviso <= MaxAvisos
    /\ avisos' = Append(SinAnterior(avisos),
                        [id |-> sigAviso, clase |-> "notificacion " \o tipo])
    /\ temporizadores' = temporizadores \cup {[id |-> sigAviso, ms |-> 4000]}
    /\ sigAviso' = sigAviso + 1
    /\ ultAviso' = [ev |-> "mostrarNotificacion", id |-> sigAviso]

\* the 4000 ms callback of notice id: it starts the exit animation of its own
\* element and arms the 300 ms timer
Timer4000(id) ==
    /\ UNCHANGED <<dashVars, adminVars, panelVars, loginVars>>
    /\ [id |-> id, ms |-> 4000] \in temporizadores
    /\ temporizadores' = (temporizadores \ {[id |-> id, ms |-> 4000]})
                           \cup {[id |-> id, ms |-> 300]}
    /\ ultAviso' = [ev |-> "timer4000", id |-> id]
    /\ UNCHANGED <<avisos, sigAviso>>

\* variant: the callback removes whichever notice is on screen
QuitarPrimero(doc, id) == IF doc = <<>> THEN doc ELSE Tail(doc)

\* notif.remove(): the callback closes over its own element; removing an
\* element that is no longer in the document does nothing
QuitarAviso(doc, id) == SelectSeq(doc, LAMBDA e : e.id # id)

\* the 300 ms callback of notice id
Timer300(id) ==
    /\ UNCHANGED <<dashVars, adminVars, panelVars, loginVars>>
    /\ [id |-> id, ms |-> 300] \in temporizadores
    /\ temporizadores' = temporizadores \ {[id |-> id, ms |-> 300]}
    /\ avisos' = QuitarAviso(avisos, id)
    /\ ultAviso' = [ev |-> "timer300", id |-> id]
    /\ UNCHANGED sigAviso

\* the notices of a page
NextAvisos ==
    \/ \E tipo \in TiposAviso : MostrarAviso(tipo)
    \/ \E id \in 1..MaxAvisos : Timer4000(id)
    \/ \E id \in 1..MaxAvisos : Timer300(id)

(* ============================== login page =============================== *)
\* the label of the login button in the page as served
EtiquetaOriginal == "Iniciar Sesion"

EtiquetaAutenticando == "Autenticando<span class=\"loading\"></span>"

Credenciales ==
    {[username |-> "admin", password |-> "buena"],
     [username |-> "admin", password |-> "mala"],
     [username |-> "operador", password |-> "mala"]}

HttpLogin == {200, 401, 500}

\* what POST /login can come back with: no response, a body that is not
\* JSON, or {status, msg|error, redirect?} under any HTTP status
RespLogin ==
    {[tipo |-> "red", http |-> 0, status |-> Indefinido, msg |-> Indefinido,
      error |-> Indefinido, redirect |-> Indefinido]}
    \cup {[tipo |-> "nojson", http |-> h, status |-> Indefinido,
           msg |-> Indefinido, error |-> Indefinido, redirect |-> Indefinido]
            : h \in {200, 500}}
    \cup {[tipo |-> "json", http |-> h, status |-> "success",
           msg |-> "Bienvenido", error |-> Indefinido, redirect |-> "/"]
            : h \in {200, 401}}
    \cup {[tipo |-> "json", http |-> h, status |-> "error",
           msg |-> Indefinido, error |-> e, redirect |-> Indefinido]
            : h \in HttpLogin, e \in {"Credenciales incorrectas", Indefinido}}

SinRespLogin ==
    [tipo |-> "ninguna", http |-> 0, status |-> Indefinido, msg |-> Indefinido,
     error |-> Indefinido, redirect |-> Indefinido]

SinCredenciales == [username |-> "", password |-> ""]

\* cuerpo: the body of the request sent last
EventoLogin(ev, cuerpo, resp, programa) ==
    [ev |-> ev, cuerpo |-> cuerpo, resp |-> resp, programa |-> programa]

InitLogin ==
    /\ formLogin = SinCredenciales
    /\ btnLogin = [disabled |-> FALSE, innerHTML |-> EtiquetaOriginal]
    /\ alertBox = [textContent |-> "", className |-> "alert", display |-> "none"]
    /\ loginEnVuelo = FALSE
    /\ temporizadoresLogin = {}
    /\ ubicacion = "/login"
    /\ ultLogin = EventoLogin("init", SinCredenciales, SinRespLogin, FALSE)

\* mostrarAlerta(mensaje, tipo): the alert box after the call
MostrarAlerta(mensaje, tipo) ==
    [textContent |-> mensaje, className |-> "alert alert-" \o tipo,
     display |-> "block"]

\* mostrarAlerta hides a success alert after 2000 ms
TimersDeAlerta(tipo) == IF tipo = "success" THEN {"ocultarAlerta"} ELSE {}

\* the user fills in the form
EscribirCredenciales(cred) ==
    /\ UNCHANGED <<dashVars, adminVars, panelVars, avisoVars>>
    /\ ubicacion = "/login"
    /\ formLogin' = cred
    /\ ultLogin' = [ultLogin EXCEPT !.ev = "escribir"]
    /\ UNCHANGED <<btnLogin, alertBox, loginEnVuelo, temporizadoresLogin,
                   ubicacion>>

\* handleLogin up to its fetch; a form whose submit button is disabled is
\* not submitted
handleLogin ==
    /\ UNCHANGED <<dashVars, adminVars, panelVars, avisoVars>>
    /\ ubicacion = "/login"
    /\ ~btnLogin.disabled
    /\ UNCHANGED formLogin
    /\ btnLogin' = [disabled |-> TRUE, innerHTML |-> EtiquetaAutenticando]
    /\ loginEnVuelo' = TRUE
    /\ ultLogin' = EventoLogin("handleLogin", formLogin, SinRespLogin, FALSE)
    /\ UNCHANGED <<alertBox, temporizadoresLogin, ubicacion>>

\* variant: the body alone decides
LoginExitoSinOk(resp) == resp.status = "success"

\* response.ok && data.status === 'success'
LoginExito(resp) == Ok(resp.http) /\ resp.status = "success"

\* data.error || 'Error desconocido'
MensajeErrorLogin(resp) ==
    IF resp.error = Indefinido THEN "Error desconocido" ELSE resp.error

\* the catch block and the else branch end alike
BotonRehabilitado == [disabled |-> FALSE, innerHTML |-> EtiquetaOriginal]

\* handleLogin from the response on
RespuestaLogin(resp) ==
    /\ UNCHANGED <<dashVars, adminVars, panelVars, avisoVars>>
    /\ ubicacion = "/login"
    /\ loginEnVuelo
    /\ loginEnVuelo' = FALSE
    /\ UNCHANGED formLogin
    /\ IF resp.tipo # "json"
         THEN \* fetch rejected or response.json() threw
              /\ alertBox' = MostrarAlerta("Error de conexion con el servidor",
                                           "error")
              /\ btnLogin' = BotonRehabilitado
              /\ UNCHANGED temporizadoresLogin
              /\ ultLogin' = EventoLogin("respuestaLogin", ultLogin.cuerpo, resp, FALSE)
         ELSE IF LoginExito(resp)
           THEN /\ alertBox' = MostrarAlerta(resp.msg, "success")
                /\ temporizadoresLogin' =
                       temporizadoresLogin \cup TimersDeAlerta("success")
                                           \cup {"redirigir"}
                /\ UNCHANGED btnLogin
                /\ ultLogin' = EventoLogin("respuestaLogin", ultLogin.cuerpo, resp, TRUE)
           ELSE /\ alertBox' = MostrarAlerta(MensajeErrorLogin(resp), "error")
                /\ btnLogin' = BotonRehabilitado
                /\ UNCHANGED temporizadoresLogin
                /\ ultLogin' = EventoLogin("respuestaLogin", ultLogin.cuerpo, resp, FALSE)
    /\ UNCHANGED ubicacion

\* the 1000 ms callback: window.location.href = data.redirect
TimerRedirigir ==
    /\ UNCHANGED <<dashVars, adminVars, panelVars, avisoVars>>
    /\ ubicacion = "/login"
    /\ "redirigir" \in temporizadoresLogin
    /\ ubicacion' = ultLogin.resp.redirect
    /\ temporizadoresLogin' = {}
    /\ ultLogin' = [ultLogin EXCEPT !.ev = "redirigir"]
    /\ UNCHANGED <<formLogin, btnLogin, alertBox, loginEnVuelo>>

\* the 2000 ms callback: the success alert is hidden
TimerOcultarAlerta ==
    /\ UNCHANGED <<dashVars, adminVars, panelVars, avisoVars>>
    /\ ubicacion = "/login"
    /\ "ocultarAlerta" \in temporizadoresLogin
    /\ alertBox' = [alertBox EXCEPT !.display = "none"]
    /\ temporizadoresLogin' = temporizadoresLogin \ {"ocultarAlerta"}
    /\ ultLogin' = [ultLogin EXCEPT !.ev = "ocultarAlerta"]
    /\ UNCHANGED <<formLogin, btnLogin, loginEnVuelo, ubicacion>>

\* the login page
NextLogin ==
    \/ \E cred \in Credenciales : EscribirCredenciales(cred)
    \/ handleLogin
    \/ \E resp \in RespLogin : RespuestaLogin(resp)
    \/ TimerRedirigir
    \/ TimerOcultarAlerta

\* the admin page: users and log cleanup
NextAdmin ==
    \/ AdminDOMContentLoaded
    \/ \E p \in BagToSet(adminEnVuelo), resp \in RespEstadisticas : RespuestaEstadisticas(p, resp)
    \/ \E p \in BagToSet(adminEnVuelo), resp \in RespUsuarios : RespuestaUsuarios(p, resp)
    \/ \E userId \in UserIds, acepta \in BOOLEAN : confirmarEliminarUsuario(userId, acepta)
    \/ \E p \in BagToSet(adminEnVuelo), resp \in RespEliminar : RespuestaEliminar(p, resp)
    \/ mostrarModalLimpiarLogs
    \/ cerrarModalLimpiarLogs
    \/ \E target \in ModalesAdmin \cup {"otro"} : AdminWindowOnclick(target)
    \/ \E cs \in ValoresDias : EditarDias(cs)
    \/ \E acepta \in BOOLEAN : ejecutarLimpiezaLogs(acepta)
    \/ \E p \in BagToSet(adminEnVuelo), resp \in RespLimpiar : RespuestaLimpieza(p, resp)

\* the dashboard page
Next ==
    \/ DOMContentLoaded
    \/ \E resp \in Respuestas : RespuestaEstado(resp)
    \/ TimerLogs
    \/ \E resp \in RespLogs : RespuestaLogs(resp)
    \/ ScrollLogs
    \/ TimerNotif
    \/ \E modo \in ModosComando, btn \in BotonesComando : EnviarComando(modo, btn)
    \/ \E p \in BagToSet(enVuelo), resp \in Respuestas : RespuestaComando(p, resp)
    \/ \E btn \in BotonesApagar : ConfirmarApagado(btn)
    \/ CerrarModal
    \/ \E target \in Objetivos : WindowOnclick(target)
    \/ ConfirmarApagadoFinal
    \/ \E p \in BagToSet(enVuelo), resp \in Respuestas : RespuestaApagado(p, resp)


\* both scripts loaded, nothing run yet
Init == InitDashboard /\ InitAdmin /\ InitPanel /\ InitAvisos /\ InitLogin

Spec == Init /\ [][Next]_vars

\* the admin page
SpecAdmin == Init /\ [][NextAdmin]_vars

\* the admin page: tabs, analytics, configuration
SpecPanel == Init /\ [][NextPanel]_vars

\* the admin page: the user form
SpecUsuarios == Init /\ [][NextUsuarios]_vars

\* the login page
SpecLogin == Init /\ [][NextLogin]_vars

\* the notices of a page; a timer that is armed runs
SpecAvisos ==
    /\ Init
    /\ [][NextAvisos]_vars
    /\ \A id \in 1..MaxAvisos : WF_vars(Timer4000(id)) /\ WF_vars(Timer300(id))

(* ============================== properties ============================== *)
RespuestasDeModo == {"respuestaComando", "respuestaApagado"}

AvisoLimite == [mensaje |-> MsgLimite, clase |-> "notificacion error", fase |-> "visible"]

(* C1: once a mode-change request settles, by whatever outcome, its        *)
(* control is enabled and carries the label it had right before the        *)
(* dispatch.                                                               *)
C1_BotonRestaurado ==
    ult.ev \in RespuestasDeModo =>
        /\ ~disabled[ult.btn]
        /\ innerHTML[ult.btn] = ult.antes

C1_Witness ==
    /\ ult.ev = "respuestaApagado"
    /\ ult.tipo = "nojson"
    /\ ult.http = 429
    /\ ~disabled[ult.btn]

(* C2: a mode-change request answered with HTTP 429, whatever its body,    *)
(* leaves the displayed state as it was and shows the rate-limit notice.   *)
C2_LimiteMuestraAviso ==
    [][ (ult'.ev \in RespuestasDeModo /\ ult'.http = 429) =>
            (ui' = ui /\ notif' = AvisoLimite) ]_vars

\* what the page shows is the state e, and rendering e again changes nothing
Mostrado(e) ==
    /\ ui.modo = e.modo_actual
    /\ ui.cpu = Texto(e.carga_cpu)
    /\ ui.latencia = Texto(e.latencia)
    /\ ActualizarUI(e) = ui

(* C3 as stated: after any mode-change response with body status success   *)
(* the page shows the state that response returned.                        *)
C3_ExitoSeMuestra ==
    (ult.ev \in RespuestasDeModo /\ ult.status = "success" /\ ult.tieneEstado) =>
        Mostrado(ult.estado)

(* C3 amended: after a mode-change response with body status success the  *)
(* page shows the state that response returned and rendering it again      *)
(* changes nothing, except when the response answers enviarComando with    *)
(* HTTP 429, which is handled as rate limited.                             *)
C3_ExitoSeMuestraSalvoLimite ==
    (/\ ult.ev \in RespuestasDeModo
     /\ ult.status = "success"
     /\ ult.tieneEstado
     /\ ~(ult.ev = "respuestaComando" /\ ult.http = 429)) =>
        Mostrado(ult.estado)

C3_Witness ==
    /\ ult.ev = "respuestaComando"
    /\ ult.http = 200
    /\ ult.status = "success"
    /\ ult.estado.modo_actual = "CINE"
    /\ ui.cpu = "88"
    /\ ui.latencia = "24"

(* C4: confirming while the guard is Pending closes the prompt, returns    *)
(* the guard to Idle, disables and busy-marks the recorded control and no  *)
(* other, and sends one request {modo: OFF, confirmado: true}; no other    *)
(* handler ever sends a request with the confirmed flag.                   *)
C4_ConfirmarDespacha ==
    /\ [][ (ult'.ev = "confirmarApagadoFinal" /\ guardia.estado = "Pending") =>
             /\ modal' = "none"
             /\ btnActual' = NULL
             /\ disabled' = [disabled EXCEPT ![guardia.btn] = TRUE]
             /\ innerHTML' = [innerHTML EXCEPT ![guardia.btn] = innerHTML[guardia.btn] + 1]
             /\ BagCardinality(enVuelo') = BagCardinality(enVuelo) + 1
             /\ \E p \in BagToSet(enVuelo') :
                   /\ p.fn = "confirmarApagadoFinal"
                   /\ p.btn = guardia.btn
                   /\ CopiesIn(p, enVuelo') = CopiesIn(p, enVuelo) + 1
             /\ ult'.enviada.modo = "OFF"
             /\ ult'.enviada.confirmado ]_vars
    /\ [](ult.enviada.confirmado => ult.ev = "confirmarApagadoFinal")

C4_Witness ==
    /\ ult.ev = "confirmarApagadoFinal"
    /\ ult.enviada.confirmado
    /\ disabled["btn-apagar"]
    /\ innerHTML["btn-apagar"] = 1
    /\ modal = "none"

(* C5: the confirm action with no pending control recorded raises no       *)
(* error, sends nothing, touches no control and only closes the prompt.    *)
C5_ConfirmarSinBoton ==
    [][ (ult'.ev = "confirmarApagadoFinal" /\ btnActual = NULL) =>
          /\ ~ult'.lanzo
          /\ ult'.enviada = SinPeticion
          /\ enVuelo' = enVuelo
          /\ disabled' = disabled
          /\ innerHTML' = innerHTML
          /\ modal' = "none"
          /\ btnActual' = NULL
          /\ ui' = ui
          /\ notif' = notif ]_vars

C5_Witness ==
    /\ ult.ev = "confirmarApagadoFinal"
    /\ ult.btn = NULL
    /\ ult.enviada = SinPeticion
    /\ ~ult.lanzo

\* the step is a dismissal of the prompt: cancel, or a click on its backdrop
Descarta(u) ==
    \/ u.ev = "cerrarModal"
    \/ (u.ev = "windowOnclick" /\ u.target = "modal-confirm")

(* C6: dismissing a Pending confirmation, by cancel or by a click outside  *)
(* the prompt, returns the guard to Idle, sends nothing, leaves the        *)
(* recorded control enabled with its label, and leaves the display alone.  *)
C6_DescartarNoToca ==
    [][ (guardia.estado = "Pending" /\ Descarta(ult')) =>
          /\ btnActual' = NULL
          /\ modal' = "none"
          /\ ult'.enviada = SinPeticion
          /\ enVuelo' = enVuelo
          /\ ~disabled'[guardia.btn]
          /\ disabled' = disabled
          /\ innerHTML' = innerHTML
          /\ ui' = ui ]_vars

C6_Witness ==
    /\ ult.ev = "windowOnclick"
    /\ ult.target = "modal-confirm"
    /\ ult.btn = "btn-apagar"
    /\ btnActual = NULL
    /\ modal = "none"

(* C7 as stated: no request with modo OFF is sent except by the confirm    *)
(* action taken while the guard is Pending.                                *)
C7_ApagarSoloConfirmado ==
    [][ ult'.enviada.modo = "OFF" =>
          (ult'.ev = "confirmarApagadoFinal" /\ guardia.estado = "Pending") ]_vars

(* C7 amended: no request with modo OFF and the confirmed flag is sent     *)
(* except by the confirm action taken while the guard is Pending, that is  *)
(* after the OFF control was activated and with no dismissal since; a      *)
(* request with modo OFF sent by enviarComando never carries the flag.     *)
C7_ApagarConfirmadoSoloTrasPrompt ==
    [][ /\ (ult'.enviada.modo = "OFF" /\ ult'.enviada.confirmado) =>
              (ult'.ev = "confirmarApagadoFinal" /\ guardia.estado = "Pending")
        /\ (ult'.enviada.modo = "OFF" /\ ult'.ev = "enviarComando") =>
              ~ult'.enviada.confirmado ]_vars

C7_Witness ==
    /\ ult.ev = "confirmarApagadoFinal"
    /\ ult.enviada.modo = "OFF"
    /\ ult.enviada.confirmado
    /\ \E p \in BagToSet(enVuelo) : p.fn = "enviarComando"

(* C8: declining the prompt of a user's delete control sends no DELETE and *)
(* starts no re-fetch of users or statistics; a DELETE is sent only by an  *)
(* accepted activation, for the user of that activation.                   *)
C8_EliminarPideConfirmacion ==
    [][ /\ (ultAdmin'.ev = "confirmarEliminarUsuario" /\ ~ultAdmin'.acepta) =>
              /\ ultAdmin'.enviadas = {}
              /\ adminEnVuelo' = adminEnVuelo
              /\ tablaUsuarios' = tablaUsuarios
              /\ stats' = stats
        /\ \A q \in ultAdmin'.enviadas :
              q.metodo = "DELETE" =>
                 /\ ultAdmin'.ev = "confirmarEliminarUsuario"
                 /\ ultAdmin'.acepta
                 /\ q.id = ultAdmin'.id ]_vars

C8_Witness ==
    /\ ultAdmin.ev = "confirmarEliminarUsuario"
    /\ ultAdmin.id = 2
    /\ ~ultAdmin.acepta
    /\ ultAdmin.enviadas = {}

(* C9: log cleanup sends its request only after the prompt is accepted;    *)
(* declining sends nothing and leaves the cleanup dialog open; a success   *)
(* response is reported with the count of removed records it carries.      *)
C9_LimpiezaPideConfirmacion ==
    [][ /\ (ultAdmin'.ev = "ejecutarLimpiezaLogs" /\ ~ultAdmin'.acepta) =>
              /\ ultAdmin'.enviadas = {}
              /\ adminEnVuelo' = adminEnVuelo
              /\ modalLimpiar' = "block"
        /\ \A q \in ultAdmin'.enviadas :
              q.url = "/api/admin/logs/limpiar" =>
                 (ultAdmin'.ev = "ejecutarLimpiezaLogs" /\ ultAdmin'.acepta)
        /\ (/\ ultAdmin'.ev = "respuestaLimpieza"
            /\ ultAdmin'.tipo = "json"
            /\ ultAdmin'.status = "success") =>
              \E n \in Eliminados :
                 /\ n = ultAdmin'.eliminados
                 /\ ultAdmin'.alerta =
                      "Limpieza completada. " \o Texto(n) \o " registros eliminados" ]_vars

C9_Witness ==
    /\ ultAdmin.ev = "respuestaLimpieza"
    /\ ultAdmin.status = "success"
    /\ ultAdmin.eliminados = 12
    /\ ultAdmin.alerta = "Limpieza completada. 12 registros eliminados"

(* C10: the displayed state changes only while a response with body status *)
(* success is handled; a mode-change response with status info or error    *)
(* (not a 429) shows a notice of that style, leaves the displayed state    *)
(* alone and raises nothing.                                               *)
C10_SoloExitoCambia ==
    [][ /\ ui' # ui =>
              (/\ ult'.ev \in RespuestasDeModo \cup {"respuestaEstado"}
               /\ ult'.status = "success")
        /\ (/\ ult'.ev \in RespuestasDeModo
            /\ ult'.tipo = "json"
            /\ ult'.http # 429
            /\ ult'.status \in {"info", "error"}) =>
              /\ ui' = ui
              /\ notif'.clase = "notificacion " \o ult'.status
              /\ notif'.fase = "visible"
              /\ ~ult'.lanzo ]_vars

(* C11: when the state fetch fails by network error or non-2xx status, the  *)
(* error notice of cargarEstadoActual is shown and the displayed state      *)
(* fields and the status indicator keep the values they had.                *)
C11_FalloEstadoAvisa ==
    [][ (ult'.ev = "respuestaEstado" /\ (ult'.tipo = "red" \/ ~Ok(ult'.http))) =>
           /\ ui' = ui
           /\ notif' = [mensaje |-> MsgErrorEstado, clase |-> "notificacion error",
                        fase |-> "visible"] ]_vars

\* a 500 whose body says success, answered before anything was rendered
C11_Witness ==
    /\ ult.ev = "respuestaEstado"
    /\ ult.http = 500
    /\ ult.status = "success"
    /\ ult.tieneEstado
    /\ ui = UiInicial
    /\ notif.mensaje = MsgErrorEstado

ClasesDeEstado == {"status-off", "status-standby", "status-on"}

(* C12: once a state was rendered, the status indicator carries exactly one *)
(* status class, given by the displayed mode: off-style iff OFF,            *)
(* standby-style iff STANDBY, on-style for every other mode.                *)
C12_UnaClaseDeEstado ==
    ui # UiInicial =>
        /\ Cardinality(ui.kpi \cap ClasesDeEstado) = 1
        /\ "kpi" \in ui.kpi
        /\ ("status-off" \in ui.kpi) <=> (ui.modo = "OFF")
        /\ ("status-standby" \in ui.kpi) <=> (ui.modo = "STANDBY")
        /\ ("status-on" \in ui.kpi) <=> (ui.modo \notin {"OFF", "STANDBY"})

\* a command response rendered STANDBY after the load had rendered
C12_Witness ==
    /\ ult.ev = "respuestaComando"
    /\ ult.status = "success"
    /\ ult.tieneEstado
    /\ ult.estado.modo_actual = "STANDBY"
    /\ ui.modo = "STANDBY"
    /\ ~estadoEnVuelo

\* the response that cargarLogs renders
LogsExito(u) ==
    u.ev = "respuestaLogs" /\ u.tipo = "json" /\ Ok(u.http) /\ u.status = "success"

(* C13: after a successful log refresh the displayed list is the list of    *)
(* the response, in its order, nothing left from an earlier refresh, the    *)
(* view is at the top, and an entry without level is styled as INFO.        *)
C13_LogsReemplazados ==
    [][ (LogsExito(ult') /\ ult'.tieneLogs) =>
           /\ Len(logBox') = Len(ult'.logs)
           /\ \A i \in 1..Len(ult'.logs) :
                /\ logBox'[i].fecha = ult'.logs[i].fecha
                /\ logBox'[i].nivel =
                     (IF ult'.logs[i].nivel = "" THEN "INFO" ELSE ult'.logs[i].nivel)
                /\ logBox'[i].clase = "log-row " \o logBox'[i].nivel
           /\ scrollTop' = 0 ]_vars

\* the two-entry list, with an entry without level, shown in its order
C13_Witness ==
    /\ LogsExito(ult)
    /\ ult.logs = Logs1
    /\ Len(logBox) = 2
    /\ logBox[1].fecha = "t2"
    /\ logBox[2].nivel = "INFO"
    /\ scrollTop = 0

(* C14: a failed log refresh (network error, non-2xx status, body status    *)
(* other than success) shows no notice, leaves the log list and the notice  *)
(* on screen unchanged, and leaves the refresh timer armed.                 *)
C14_FalloLogsSilencioso ==
    [][ (ult'.ev = "respuestaLogs" /\ ~LogsExito(ult')) =>
           /\ notif' = notif
           /\ logBox' = logBox
           /\ scrollTop' = scrollTop
           /\ cargada' ]_vars

\* a 500 while a list and a notice are on screen
C14_Witness ==
    /\ ult.ev = "respuestaLogs"
    /\ ult.http = 500
    /\ Len(logBox) > 0
    /\ notif.fase = "visible"

EnVueloDe(b) == {p \in BagToSet(enVuelo) : p.btn = b}

(* C20: a control is disabled exactly while its mode-change request is in   *)
(* flight, so each control has at most one such request in flight; a        *)
(* request in flight disables no other control.                             *)
C20_UnaPeticionPorBoton ==
    \A b \in Botones :
        /\ Cardinality(EnVueloDe(b)) <= 1
        /\ \A p \in EnVueloDe(b) : CopiesIn(p, enVuelo) = 1
        /\ disabled[b] <=> EnVueloDe(b) # {}

\* two controls each with a request in flight, the third still enabled
C20_Witness ==
    /\ EnVueloDe("btn-cine") # {}
    /\ EnVueloDe("btn-apagar") # {}
    /\ disabled["btn-cine"] /\ disabled["btn-apagar"]
    /\ ~disabled["btn-conferencia"]

(* C16: the upsert request of the user form carries the id the form was     *)
(* opened with when it was opened for editing, and no id (0 here) when it   *)
(* was opened for a new user.                                               *)
C16_UpsertLlevaId ==
    [][ ultAdmin'.ev = "guardarUsuario" =>
          /\ ultAdmin'.enviadas # {}
          /\ \A r \in ultAdmin'.enviadas :
               /\ r.metodo = "POST"
               /\ r.url = "/api/admin/usuarios"
               /\ r.id = formUsuario.id ]_vars

\* the requests that load the data of a tab
PeticionesDelTab(tab) ==
    CASE tab = "usuarios" -> {GetUsuarios}
      [] tab = "logs" -> {}
      [] tab = "analiticas" -> {GetChartUsuarios, GetChartEventos, GetTimelineModos}
      [] tab = "config" -> {GetConfiguraciones}

(* C17: switching tabs sends requests only for the newly active tab, none   *)
(* for the logs tab, and none for a tab whose data was already rendered.    *)
C17_TabPerezoso ==
    [][ ultAdmin'.ev = "cambiarTab" =>
          /\ ultAdmin'.enviadas \subseteq PeticionesDelTab(tabActivo')
          /\ tabActivo' \in renderizados => ultAdmin'.enviadas = {} ]_vars

(* C18: the three analytics loads are requested without waiting for one     *)
(* another: opening the analytics tab sends the three requests at once.     *)
C18_CargasSinEspera ==
    [][ (ultAdmin'.ev = "cambiarTab" /\ tabActivo' = "analiticas") =>
          ultAdmin'.enviadas = {GetChartUsuarios, GetChartEventos, GetTimelineModos} ]_vars

\* the load that settled did not render: rejected fetch, unparsable body,
\* error status, or an error while building from the data
FalloAnalitica(u) == ~(u.tipo = "json" /\ u.status = "success" /\ u.datos)

(* C19: a failed analytics load raises no alert, leaves what the other two  *)
(* loads rendered as it was, and the load that follows it is requested all  *)
(* the same; a load whose response is good renders whatever happened to the *)
(* loads before it.                                                         *)
C19_FalloAislado ==
    [][ /\ (ultAdmin'.ev = "respuestaChartUsuarios" /\ FalloAnalitica(ultAdmin')) =>
             /\ ultAdmin'.alerta = SinAlerta
             /\ ultAdmin'.enviadas = {GetChartEventos}
             /\ BagIn(PendAdmin("cargarChartEventos", 0), adminEnVuelo')
             /\ UNCHANGED <<chartEventos, chartsVivos.eventos, timelineModos>>
        /\ (ultAdmin'.ev = "respuestaChartEventos" /\ FalloAnalitica(ultAdmin')) =>
             /\ ultAdmin'.alerta = SinAlerta
             /\ ultAdmin'.enviadas = {GetTimelineModos}
             /\ BagIn(PendAdmin("cargarTimelineModos", 0), adminEnVuelo')
             /\ UNCHANGED <<chartUsuarios, chartsVivos.usuarios, timelineModos>>
        /\ (ultAdmin'.ev = "respuestaTimelineModos" /\ FalloAnalitica(ultAdmin')) =>
             /\ ultAdmin'.alerta = SinAlerta
             /\ UNCHANGED <<chartUsuarios, chartEventos, chartsVivos>>
        /\ (ultAdmin'.ev = "respuestaChartUsuarios" /\ ~FalloAnalitica(ultAdmin')) =>
             chartUsuarios' = "vivo"
        /\ (ultAdmin'.ev = "respuestaChartEventos" /\ ~FalloAnalitica(ultAdmin')) =>
             chartEventos' = "vivo"
        /\ (ultAdmin'.ev = "respuestaTimelineModos" /\ ~FalloAnalitica(ultAdmin')) =>
             timelineModos' = "dibujado" ]_vars

\* the first load never rendered, the two after it did
C19_Witness ==
    /\ ultAdmin.ev = "respuestaTimelineModos"
    /\ chartUsuarios = NULL
    /\ chartEventos = "vivo"
    /\ timelineModos = "dibujado"

\* the display shows the three fields of estado e
Muestra(u, e) ==
    /\ u.modo = e.modo_actual
    /\ u.cpu = Texto(e.carga_cpu)
    /\ u.latencia = Texto(e.latencia)

\* a response carrying a state under body status success
ExitoConEstado(u) ==
    /\ u.ev \in RespuestasDeModo \cup {"respuestaEstado"}
    /\ u.tipo = "json"
    /\ u.status = "success"
    /\ u.tieneEstado

(* C21, as stated: the displayed triple is the one of the success response  *)
(* received last, whichever handler received it.                            *)
C21_UltimaRespuestaGana ==
    [][ ExitoConEstado(ult') => Muestra(ui', ult'.estado) ]_vars

\* the success responses the handlers do not render: a 429 answered to
\* enviarComando, a non-2xx answered to the state poll
NoRenderizada(u) ==
    \/ u.ev = "respuestaComando" /\ u.http = 429
    \/ u.ev = "respuestaEstado" /\ ~Ok(u.http)

(* C21, amended: the displayed triple is always the triple of one state,    *)
(* never a mix; a success response that its handler renders replaces it     *)
(* whole on arrival, whatever the order the requests were sent in, and      *)
(* nothing else changes it; the log list changes only on a successful log   *)
(* response and is then the list of that response.                          *)
C21_UltimaRenderizadaGana ==
    /\ [](ui # UiInicial => \E e \in Estados : Muestra(ui, e))
    /\ [][ /\ (ExitoConEstado(ult') /\ ~NoRenderizada(ult')) => Muestra(ui', ult'.estado)
           /\ ui' # ui => (ExitoConEstado(ult') /\ ~NoRenderizada(ult'))
           /\ logBox' # logBox => LogsExito(ult')
           /\ (LogsExito(ult') /\ ult'.tieneLogs) =>
                /\ Len(logBox') = Len(ult'.logs)
                /\ \A i \in 1..Len(logBox') : logBox'[i].fecha = ult'.logs[i].fecha ]_vars

\* a command response rendered OFF while the state poll and the request of
\* another control were still in flight
C21_Witness ==
    /\ ult.ev = "respuestaComando"
    /\ ult.btn = "btn-conferencia"
    /\ ult.http = 200
    /\ ult.status = "success"
    /\ ult.tieneEstado
    /\ ult.estado.modo_actual = "OFF"
    /\ Muestra(ui, ult.estado)
    /\ estadoEnVuelo
    /\ EnVueloDe("btn-cine") # {}

(* C22: a mode-change response with a non-2xx status other than 429 leaves  *)
(* the display as it was and shows an error notice with a message, whatever *)
(* its body says.                                                           *)
C22_ErrorHttpEsFallo ==
    [][ (ult'.ev \in RespuestasDeModo /\ ult'.tipo # "red"
           /\ ~Ok(ult'.http) /\ ult'.http # 429) =>
          /\ ui' = ui
          /\ notif'.clase = "notificacion error"
          /\ notif'.mensaje # "" ]_vars

(* C24: the confirmation prompt is open if and only if a pending control is *)
(* recorded in btnActual.                                                   *)
C24_PromptSiiBoton ==
    (modal = "block") <=> (btnActual # NULL)

\* the prompt is open with its control recorded right after the response to
\* another control's request was handled
C24_Witness ==
    /\ modal = "block"
    /\ btnActual = "btn-apagar"
    /\ ult.ev = "respuestaComando"
    /\ logsEnVuelo > 0

ExitoAdmin(u) == u.tipo = "json" /\ u.status = "success"

(* C23: after a successful user deactivation the users list is fetched      *)
(* again, after a successful log cleanup the logs list is fetched again;    *)
(* after a failure response or network error nothing is fetched and the     *)
(* rendered list is unchanged.                                              *)
C23_ExitoRecarga ==
    [][ /\ (ultAdmin'.ev = "respuestaEliminar" /\ ExitoAdmin(ultAdmin')) =>
             GetUsuarios \in ultAdmin'.enviadas
        /\ (ultAdmin'.ev = "respuestaLimpieza" /\ ExitoAdmin(ultAdmin')) =>
             PostBuscarLogs \in ultAdmin'.enviadas
        /\ (ultAdmin'.ev \in {"respuestaEliminar", "respuestaLimpieza"}
              /\ ~ExitoAdmin(ultAdmin')) =>
             /\ ultAdmin'.enviadas = {}
             /\ tablaUsuarios' = tablaUsuarios ]_vars

(* C27: each analytics canvas has at most one live chart at any time, and   *)
(* it has one exactly when the chart variable records a live chart; a       *)
(* successful load leaves exactly one.                                      *)
C27_UnChartPorCanvas ==
    /\ chartsVivos.usuarios <= 1
    /\ chartsVivos.eventos <= 1
    /\ (chartsVivos.usuarios = 1) <=> (chartUsuarios = "vivo")
    /\ (chartsVivos.eventos = 1) <=> (chartEventos = "vivo")
    /\ (ultAdmin.ev = "respuestaChartUsuarios" /\ ~FalloAnalitica(ultAdmin)) =>
         chartsVivos.usuarios = 1
    /\ (ultAdmin.ev = "respuestaChartEventos" /\ ~FalloAnalitica(ultAdmin)) =>
         chartsVivos.eventos = 1

\* a load of the users chart rendered while another load of the same chart,
\* started by a later opening of the tab, is still in flight, and the events
\* chart of an earlier run is live
C27_Witness ==
    /\ ultAdmin.ev = "respuestaChartUsuarios"
    /\ ~FalloAnalitica(ultAdmin)
    /\ chartsVivos.usuarios = 1
    /\ chartEventos = "vivo"
    /\ BagIn(PendAdmin("cargarChartUsuarios", 0), adminEnVuelo)
    /\ BagIn(PendAdmin("cargarChartEventos", 0), adminEnVuelo)

\* C25: at most one notice is in the document at any time and showing a notice
\* takes the previous one out first; a notice's 300 ms callback takes out
\* nothing but its own element, so never a newer notice; and every notice
\* that is shown is eventually gone
C25_UnAvisoALaVez ==
    /\ [](Len(avisos) <= 1)
    /\ [][ /\ ultAviso'.ev = "mostrarNotificacion"
              => IdsDe(avisos') = {ultAviso'.id}
           /\ ultAviso'.ev \in {"timer4000", "timer300"}
              => IdsDe(avisos) \ IdsDe(avisos') \subseteq {ultAviso'.id} ]_vars
    /\ \A id \in 1..MaxAvisos :
          (id \in IdsDe(avisos)) ~> (id \notin IdsDe(avisos))

\* C25 witness: a second notice is on screen while the first one's 300 ms
\* callback has just run
C25_Witness ==
    /\ ultAviso = [ev |-> "timer300", id |-> 1]
    /\ IdsDe(avisos) = {2}

====
